---- MODULE Spec2Model ----
(***************************************************************************)
(* Multi-tenant authorization core of the analytics backend.               *)
(*                                                                         *)
(* The store is the relational database: the workspaces, workspace_members *)
(* and workspace_invitations tables (backend/database.py) and one dynamic  *)
(* data table with a user_id column (backend/table_builder.py).  Every     *)
(* service method and endpoint is one action; `last` records the call and  *)
(* what it returned.                                                       *)
(***************************************************************************)
EXTENDS Integers, FiniteSets, Sequences, TLC

VARIABLES workspaces, members, invitations, now, rows, last, reqs, tables, metadata, cache

vars == <<workspaces, members, invitations, now, rows, last, reqs, tables, metadata, cache>>

\* The tables of the database, the rows of _table_metadata and the lru_cache of
\* get_cached_schema.
catalog == <<tables, metadata, cache>>

(***************************************************************************)
(* Bounds of the model.                                                    *)
(***************************************************************************)
MaxWorkspaces == 1
MaxMembers == 3
MaxInvitations == 1
MaxTicks == 1
MaxRows == 2
MaxRequests == 2
MaxInvited == 2

(***************************************************************************)
(* Users, emails, roles.                                                   *)
(***************************************************************************)
Users == {1, 2, 3}

\* A caller without a valid token: get_current_user_id answers 401, and a route
\* without that dependency serves the caller all the same.
Anonymous == 0

EmailOf == <<"a@x.com", "b@x.com", "c@x.com">>

Emails == {EmailOf[u] : u \in Users} \cup {"nobody@x.com"}

Roles == {"owner", "editor", "viewer"}

ROLE_HIERARCHY == [owner |-> 3, editor |-> 2, viewer |-> 1]

\* required_role: Optional[WorkspaceRole] = None
NoRole == "none"

\* A NULL column value (accepted_at).
NULL == -1

INVITE_DAYS == 7

\* The requests being served: none is in flight.
NoRequests == {}

\* The tables of the database when the service starts: the uploaded data table
\* and the ORM tables of the model.
ExistingTables == {"sales", "users", "workspaces"}

\* The lru_cache of get_cached_schema after cache_clear().
NoSchemas == <<>>

\* No table was made with the table builder and no schema was asked for.
InitCatalog ==
    /\ tables = ExistingTables
    /\ metadata = {}
    /\ cache = NoSchemas

SetMax(S) == CHOOSE x \in S : \A y \in S : y <= x

\* INTEGER PRIMARY KEY without AUTOINCREMENT: the next id is max(id) + 1.
NextId(table) == IF table = {} THEN 1 ELSE SetMax({r.id : r \in table}) + 1

\* db.query(WorkspaceMember).filter(workspace_id == w, user_id == u)
MemberRows(w, u) == {m \in members : m.workspace_id = w /\ m.user_id = u}

\* The owner memberships of a workspace.
Owners(w) == {m \in members : m.workspace_id = w /\ m.role = "owner"}

\* db.query(User).filter(User.email == email)
UsersByEmail(email) == {u \in Users : EmailOf[u] = email}

\* The name a workspace is created with, and the description None.
DefaultName == "W"

NoDescription == "None"

\* A Workspace row as created: is_active defaults to True.
Workspace(id, owner_id, type) == [id |-> id, owner_id |-> owner_id, type |-> type, is_active |-> TRUE, name |-> DefaultName, description |-> NoDescription]

\* The call last made: who called what on which workspace (ws), with which id
\* argument (target: a member's user id, a token, a rowid), which text argument
\* (arg: an email, a role, a table name), what the service returned (ret) and the
\* HTTP status of the endpoint around it (0: the method has no endpoint).
Call(op, user, ws, target, arg, ret, status) ==
    [op |-> op, user |-> user, ws |-> ws, target |-> target, arg |-> arg,
     ret |-> ret, status |-> status, data |-> {}]

(***************************************************************************)
(* The database of backend/database.py right after create_tables(): the    *)
(* users are registered, there is no workspace, membership or invitation,  *)
(* and the data table is empty.                                            *)
(***************************************************************************)
Init ==
    /\ workspaces = {}
    /\ members = {}
    /\ invitations = {}
    /\ now = 0
    /\ reqs = NoRequests
    /\ InitCatalog
    /\ rows = {}
    /\ last = Call("init", Anonymous, 0, 0, "", "None", 0)

(***************************************************************************)
(* backend/workspace_service.py (the service behind workspace_endpoints).  *)
(***************************************************************************)

\* WorkspaceService.create_workspace: the workspace row, then the owner's membership.
create_workspace(owner_id) ==
    /\ Cardinality({w \in workspaces : w.type = "team"}) < MaxWorkspaces
    /\ Cardinality(members) < MaxMembers
    /\ LET wid == NextId(workspaces) IN
        /\ workspaces' = workspaces \cup
              {Workspace(wid, owner_id, "team")}
        /\ members' = members \cup
              {[workspace_id |-> wid, user_id |-> owner_id, role |-> "owner"]}
        /\ last' = Call("create_workspace", owner_id, wid, 0, "", "workspace", 200)
    /\ UNCHANGED <<invitations, now, rows, reqs, catalog>>

\* The permission filter of add_member, create_invitation and list_pending_invitations.
OwnerOrEditor(w, u) == {m \in MemberRows(w, u) : m.role = "owner" \/ m.role = "editor"}

\* WorkspaceService.add_member
add_member(workspace_id, user_id, new_member_email, role) ==
    /\ UNCHANGED <<workspaces, invitations, now, rows, reqs, catalog>>
    /\ IF OwnerOrEditor(workspace_id, user_id) = {}
       THEN /\ UNCHANGED members
            /\ last' = Call("add_member", user_id, workspace_id, 0, "", "None", 0)
       ELSE IF UsersByEmail(new_member_email) = {}
       THEN /\ UNCHANGED members
            /\ last' = Call("add_member", user_id, workspace_id, 0, "", "None", 0)
       ELSE \E new_user \in UsersByEmail(new_member_email) :
            IF MemberRows(workspace_id, new_user) # {}
            THEN /\ UNCHANGED members
                 /\ last' = Call("add_member", user_id, workspace_id, 0, "", "None", 0)
            ELSE /\ Cardinality(members) < MaxMembers
                 /\ members' = members \cup
                       {[workspace_id |-> workspace_id, user_id |-> new_user, role |-> role]}
                 /\ last' = Call("add_member", user_id, workspace_id, 0, "", "member", 0)

\* WorkspaceService.remove_member and the endpoint's 403 mapping.
remove_member(workspace_id, user_id, member_id) ==
    /\ UNCHANGED <<workspaces, invitations, now, rows, reqs, catalog>>
    /\ IF {w \in workspaces : w.id = workspace_id /\ w.owner_id = user_id} = {}
       THEN /\ UNCHANGED members
            /\ last' = Call("remove_member", user_id, workspace_id, member_id, "", "False", 403)
       ELSE IF member_id = user_id
       THEN /\ UNCHANGED members
            /\ last' = Call("remove_member", user_id, workspace_id, member_id, "", "False", 403)
       ELSE IF MemberRows(workspace_id, member_id) = {}
       THEN /\ UNCHANGED members
            /\ last' = Call("remove_member", user_id, workspace_id, member_id, "", "False", 403)
       ELSE \E member \in MemberRows(workspace_id, member_id) :
            /\ members' = members \ {member}
            /\ last' = Call("remove_member", user_id, workspace_id, member_id, "", "True", 200)

\* The invitations create_invitation treats as pending: active and not accepted
\* (expiry is not part of this filter).
PendingFor(workspace_id, email) ==
    {i \in invitations : /\ i.workspace_id = workspace_id
                         /\ i.email = email
                         /\ i.is_active
                         /\ i.accepted_at = NULL}

\* WorkspaceService.create_invitation and the endpoint's 403 mapping.  The token
\* (secrets.token_urlsafe) is a fresh value: the new row's id.
create_invitation(workspace_id, user_id, email, role) ==
    /\ UNCHANGED <<workspaces, members, now, rows, reqs, catalog>>
    /\ IF OwnerOrEditor(workspace_id, user_id) = {}
       THEN /\ UNCHANGED invitations
            /\ last' = Call("create_invitation", user_id, workspace_id, 0, "", "None", 403)
       ELSE IF PendingFor(workspace_id, email) # {}
       THEN /\ UNCHANGED invitations
            /\ last' = Call("create_invitation", user_id, workspace_id, 0, "", "None", 403)
       ELSE /\ Cardinality(invitations) < MaxInvitations
            /\ LET iid == NextId(invitations) IN
                /\ invitations' = invitations \cup
                      {[id |-> iid, workspace_id |-> workspace_id, email |-> email,
                        role |-> role, token |-> iid,
                        expires_at |-> now + INVITE_DAYS,
                        accepted_at |-> NULL, is_active |-> TRUE]}
                /\ last' = Call("create_invitation", user_id, workspace_id, iid, "",
                                "invitation", 200)

\* The invitation query with the expires_at comparison left out.
AcceptableInvitations_NoExpiry(token) ==
    {i \in invitations : /\ i.token = token
                         /\ i.is_active
                         /\ i.accepted_at = NULL}

\* The invitation query of accept_invitation.
AcceptableInvitations(token) ==
    {i \in invitations : /\ i.token = token
                         /\ i.is_active
                         /\ i.accepted_at = NULL
                         /\ i.expires_at > now}

\* WorkspaceService.accept_invitation and the endpoint's 400 mapping.
accept_invitation(token, user_id) ==
    /\ UNCHANGED <<workspaces, now, rows, reqs, catalog>>
    /\ IF AcceptableInvitations(token) = {}
       THEN /\ UNCHANGED <<members, invitations>>
            /\ last' = Call("accept_invitation", user_id, 0, token, "", "None", 400)
       ELSE \E invitation \in AcceptableInvitations(token) :
            IF EmailOf[user_id] # invitation.email
            THEN /\ UNCHANGED <<members, invitations>>
                 /\ last' = Call("accept_invitation", user_id, 0, token, "", "None", 400)
            ELSE IF MemberRows(invitation.workspace_id, user_id) # {}
            THEN \E existing \in MemberRows(invitation.workspace_id, user_id) :
                 /\ UNCHANGED <<members, invitations>>
                 /\ last' = Call("accept_invitation", user_id, existing.workspace_id, token,
                                 "", "existing", 200)
            ELSE /\ Cardinality(members) < MaxMembers
                 /\ members' = members \cup
                       {[workspace_id |-> invitation.workspace_id, user_id |-> user_id,
                         role |-> invitation.role]}
                 /\ invitations' = (invitations \ {invitation}) \cup
                       {[invitation EXCEPT !.accepted_at = now, !.is_active = FALSE]}
                 /\ last' = Call("accept_invitation", user_id, invitation.workspace_id, token,
                                 "", "member", 200)

\* The clock (datetime.utcnow) moves on by the lifetime of an invitation.
Tick ==
    /\ now < MaxTicks * INVITE_DAYS
    /\ now' = now + INVITE_DAYS
    /\ last' = Call("tick", Anonymous, 0, 0, "", "None", 0)
    /\ UNCHANGED <<workspaces, members, invitations, rows, reqs, catalog>>

(***************************************************************************)
(* backend/middleware/workspace_auth.py                                    *)
(***************************************************************************)

\* The rank comparison with <= in place of <.
RoleSufficient_Strict(user_role, required_role) ==
    IF required_role # NoRole
    THEN ~(ROLE_HIERARCHY[user_role] <= ROLE_HIERARCHY[required_role])
    ELSE TRUE

\* The rank comparison of verify_workspace_access: `if required_role:` and
\* ROLE_HIERARCHY[user_role] < ROLE_HIERARCHY[required_role] raises.
RoleSufficient(user_role, required_role) ==
    IF required_role # NoRole
    THEN ~(ROLE_HIERARCHY[user_role] < ROLE_HIERARCHY[required_role])
    ELSE TRUE

\* The rows of the membership query of verify_workspace_access
\* (workspace_members JOIN workspaces).
AccessRows(workspace_id, user_id) ==
    {m \in MemberRows(workspace_id, user_id) : \E w \in workspaces : w.id = m.workspace_id}

\* The statuses verify_workspace_access can end with: 403 (WorkspaceAccessError)
\* or 200 (it returns the access info).
AccessStatus(workspace_id, user_id, required_role) ==
    IF AccessRows(workspace_id, user_id) = {}
    THEN {403}
    ELSE {IF RoleSufficient(result.role, required_role) THEN 200 ELSE 403 :
            result \in AccessRows(workspace_id, user_id)}

\* verify_workspace_access, called as a dependency of a workspace route.
verify_workspace_access(workspace_id, user_id, required_role) ==
    /\ \E status \in AccessStatus(workspace_id, user_id, required_role) :
          last' = Call("verify_workspace_access", user_id, workspace_id, 0, required_role,
                       IF status = 200 THEN "access" ELSE "WorkspaceAccessError", status)
    /\ UNCHANGED <<workspaces, members, invitations, now, rows, reqs, catalog>>

(***************************************************************************)
(* backend/services/workspace_service.py (user_id is the service's         *)
(* self.user_id).                                                          *)
(***************************************************************************)

\* WorkspaceService._verify_owner: TRUE when it returns, FALSE when it raises.
verify_owner(workspace_id, user_id, access) ==
    /\ access \in MemberRows(workspace_id, user_id)
    /\ access.role = "owner"

\* WorkspaceService.update_member_role
svc_update_member_role(user_id, workspace_id, member_id, new_role) ==
    /\ UNCHANGED <<workspaces, invitations, now, rows, reqs, catalog>>
    /\ IF ~(\E access \in members : verify_owner(workspace_id, user_id, access))
       THEN /\ UNCHANGED members
            /\ last' = Call("update_member_role", user_id, workspace_id, member_id, "",
                            "WorkspaceAccessError", 403)
       ELSE IF member_id = user_id
       THEN /\ UNCHANGED members
            /\ last' = Call("update_member_role", user_id, workspace_id, member_id, "",
                            "WorkspaceAccessError", 403)
       ELSE IF new_role = "owner"
       THEN /\ UNCHANGED members
            /\ last' = Call("update_member_role", user_id, workspace_id, member_id, "",
                            "WorkspaceAccessError", 403)
       ELSE /\ members' = {IF m \in MemberRows(workspace_id, member_id)
                           THEN [m EXCEPT !.role = new_role] ELSE m : m \in members}
            /\ last' = Call("update_member_role", user_id, workspace_id, member_id, "",
                            "updated", 200)

\* A personal workspace that is never recognised as one.
IsPersonal_Never(type) == FALSE

\* workspace["type"] == "personal" (workspace.type == 'personal' in the examples)
IsPersonal(type) == type = "personal"

\* DELETE FROM workspaces WHERE id = :workspace_id; the rows that belong to the
\* workspace go with it (Workspace.members and Workspace.invitations cascade).
DeleteWorkspaceRow(workspace_id) ==
    /\ workspaces' = {w \in workspaces : w.id # workspace_id}
    /\ members' = {m \in members : m.workspace_id # workspace_id}
    /\ invitations' = {i \in invitations : i.workspace_id # workspace_id}

\* WorkspaceService.get_workspace: the workspace joined with the caller's membership
\* (the empty set when it returns None).
svc_get_workspace(user_id, workspace_id) ==
    {[type |-> w.type, user_role |-> m.role] :
        w \in {x \in workspaces : x.id = workspace_id},
        m \in MemberRows(workspace_id, user_id)}

\* WorkspaceService.delete_workspace
svc_delete_workspace(user_id, workspace_id) ==
    /\ UNCHANGED <<now, rows, reqs, catalog>>
    /\ IF svc_get_workspace(user_id, workspace_id) = {}
       THEN /\ UNCHANGED <<workspaces, members, invitations>>
            /\ last' = Call("svc_delete_workspace", user_id, workspace_id, 0, "",
                            "WorkspaceAccessError", 403)
       ELSE \E workspace \in svc_get_workspace(user_id, workspace_id) :
            IF IsPersonal(workspace.type)
            THEN /\ UNCHANGED <<workspaces, members, invitations>>
                 /\ last' = Call("svc_delete_workspace", user_id, workspace_id, 0, "",
                                 "WorkspaceAccessError", 403)
            ELSE IF workspace.user_role # "owner"
            THEN /\ UNCHANGED <<workspaces, members, invitations>>
                 /\ last' = Call("svc_delete_workspace", user_id, workspace_id, 0, "",
                                 "WorkspaceAccessError", 403)
            ELSE /\ DeleteWorkspaceRow(workspace_id)
                 /\ last' = Call("svc_delete_workspace", user_id, workspace_id, 0, "",
                                 "True", 200)

(***************************************************************************)
(* backend/examples/secure_api_patterns.py                                 *)
(***************************************************************************)

\* delete_workspace behind require_workspace_access(required_role=OWNER)
api_delete_workspace(user_id, workspace_id) ==
    /\ UNCHANGED <<now, rows, reqs, catalog>>
    /\ \E access \in AccessStatus(workspace_id, user_id, "owner") :
       IF access = 403
       THEN /\ UNCHANGED <<workspaces, members, invitations>>
            /\ last' = Call("api_delete_workspace", user_id, workspace_id, 0, "",
                            "WorkspaceAccessError", 403)
       ELSE IF \E w \in workspaces : w.id = workspace_id /\ IsPersonal(w.type)
       THEN /\ UNCHANGED <<workspaces, members, invitations>>
            /\ last' = Call("api_delete_workspace", user_id, workspace_id, 0, "",
                            "HTTPException", 400)
       ELSE IF ~(\E w \in workspaces : w.id = workspace_id)
       THEN /\ UNCHANGED <<workspaces, members, invitations>>
            /\ last' = Call("api_delete_workspace", user_id, workspace_id, 0, "",
                            "HTTPException", 404)
       ELSE /\ DeleteWorkspaceRow(workspace_id)
            /\ last' = Call("api_delete_workspace", user_id, workspace_id, 0, "",
                            "deleted", 200)

(***************************************************************************)
(* The workspace directory: every service call, by any user, with any      *)
(* argument.                                                               *)
(***************************************************************************)
WorkspaceIds == 1 .. MaxWorkspaces

Tokens == 1 .. MaxInvitations + 1

\* The service behind workspace_endpoints, by any user with any argument, and the
\* clock.
NextInvite ==
    \/ \E u \in Users : create_workspace(u)
    \/ \E w \in WorkspaceIds, u \in Users, e \in Emails, r \in Roles : add_member(w, u, e, r)
    \/ \E w \in WorkspaceIds, u \in Users, m \in Users : remove_member(w, u, m)
    \/ \E w \in WorkspaceIds, u \in Users, e \in Emails, r \in Roles :
          create_invitation(w, u, e, r)
    \/ \E t \in Tokens, u \in Users : accept_invitation(t, u)
    \/ Tick

SpecInvite == Init /\ [][NextInvite]_vars

\* The five service calls of workspace_endpoints plus the role change of
\* services/workspace_service.py, on the same tables.
NextDirectory ==
    \/ \E u \in Users : create_workspace(u)
    \/ \E w \in WorkspaceIds, u \in Users, e \in Emails, r \in Roles : add_member(w, u, e, r)
    \/ \E w \in WorkspaceIds, u \in Users, m \in Users : remove_member(w, u, m)
    \/ \E w \in WorkspaceIds, u \in Users, e \in Emails, r \in Roles :
          create_invitation(w, u, e, r)
    \/ \E t \in Tokens, u \in Users : accept_invitation(t, u)
    \/ \E u \in Users, w \in WorkspaceIds, m \in Users, r \in Roles :
          svc_update_member_role(u, w, m, r)

SpecDirectory == Init /\ [][NextDirectory]_vars

\* The database of the workspace schema the services/ and examples/ code is written
\* for, after user 1 has signed up: the sign-up trigger gave user 1 a personal
\* workspace and its owner membership (tests, test_workspaces fixture).
InitAccess ==
    /\ workspaces = {Workspace(1, 1, "personal")}
    /\ members = {[workspace_id |-> 1, user_id |-> 1, role |-> "owner"]}
    /\ invitations = {}
    /\ now = 0
    /\ reqs = NoRequests
    /\ InitCatalog
    /\ rows = {}
    /\ last = Call("init", Anonymous, 0, 0, "", "None", 0)

AccessWorkspaceIds == 1 .. MaxWorkspaces + 1

\* Workspace routes guarded by verify_workspace_access, with the calls that create
\* workspaces and memberships and change roles.
NextAccess ==
    \/ \E u \in Users : create_workspace(u)
    \/ \E w \in AccessWorkspaceIds, u \in Users, e \in Emails, r \in Roles :
          add_member(w, u, e, r)
    \/ \E u \in Users, w \in AccessWorkspaceIds, m \in Users, r \in Roles :
          svc_update_member_role(u, w, m, r)
    \/ \E u \in Users, w \in AccessWorkspaceIds : svc_delete_workspace(u, w)
    \/ \E u \in Users, w \in AccessWorkspaceIds : api_delete_workspace(u, w)
    \/ \E w \in AccessWorkspaceIds, u \in Users, r \in Roles \cup {NoRole} :
          verify_workspace_access(w, u, r)

SpecAccess == InitAccess /\ [][NextAccess]_vars

(***************************************************************************)
(* Data tables and the endpoints of backend/main.py that run statements on *)
(* them.  The database holds the data table "sales" (columns user_id,      *)
(* name), the users table and the workspaces table; "missing" names a      *)
(* table that does not exist.                                              *)
(***************************************************************************)
Tables == {"sales", "users", "workspaces", "missing"}

\* inspector.get_table_names()
TableNames == tables

\* Users that own rows of the data table and call the row endpoints.
RowCallers == {1, 2}

Names == {"x", "y"}

\* The SQL NULL of a text column.
NullText == "NULL"

NoSearch == "None"

Searches == {NoSearch, "x"}

NoTable == "None"

MAX_PAGE_SIZE == 100

PREVIEW_LIMIT == 10

Pages == 0 .. MaxRows - 1

PageSizes == {0, 1, 2}

Min(a, b) == IF a < b THEN a ELSE b

\* inspector.get_columns(table_name)
ColumnNames(t) ==
    CASE t = "sales" -> {"user_id", "name"}
      [] t = "workspaces" -> {"id", "name", "description", "owner_id", "created_at",
                              "updated_at", "is_active"}
      [] t = "users" -> {"id", "email", "hashed_password", "full_name", "created_at"}
      [] OTHER -> IF t \in tables THEN {"user_id", "name"} ELSE {}

\* Columns declared nullable=False without a default.
RequiredColumns(t) ==
    CASE t = "workspaces" -> {"name", "owner_id"}
      [] t = "users" -> {"email", "full_name", "hashed_password"}
      [] OTHER -> {}

\* The rowids of a table; the integer primary key of an ORM table is its rowid.
TableRowids(t) ==
    CASE t = "sales" -> {r.rowid : r \in rows}
      [] t = "workspaces" -> {w.id : w \in workspaces}
      [] t = "users" -> Users
      [] OTHER -> {}

SYSTEM_TABLES ==
    {"users", "_column_metadata", "_table_metadata", "_schema", "_schema_changelog",
     "_migrations", "sqlite_sequence", "alembic_version"}

\* table_name.startswith('_'), over the table names of the model.
StartsWithUnderscore(t) ==
    t \in {"_column_metadata", "_table_metadata", "_schema", "_schema_changelog",
           "_migrations"}

\* The rows of a table with a user_id column: those of the data table; a table
\* made with the table builder holds none.
RowsOf(t) == IF t = "sales" THEN rows ELSE {}

\* validate_table_access: "ok" for True, else the kind of ValueError raised.
validate_table_access(table_name, user_id) ==
    IF table_name \notin TableNames THEN "not_found"
    ELSE IF table_name \in SYSTEM_TABLES \/ StartsWithUnderscore(table_name)
    THEN "system_table"
    ELSE IF /\ "user_id" \in ColumnNames(table_name)
            /\ Cardinality({r \in RowsOf(table_name) : r.user_id = user_id}) = 0
    THEN "no_data"
    ELSE "ok"

\* What an endpoint did: the call, the HTTP status, whether the caller was
\* authenticated (auth), whether validate_table_access returned True (validated),
\* the tables a statement of the handler ran on after that (stmt), and the rows
\* returned (data), each as <<table, rowid>>.
RowCall(op, user, table, rowid, page, page_size, search, status, auth, validated, stmt, data) ==
    [op |-> op, user |-> user, table |-> table, rowid |-> rowid, page |-> page,
     page_size |-> page_size, search |-> search, status |-> status, auth |-> auth,
     validated |-> validated, stmt |-> stmt, data |-> data]

\* A call that ended before any statement of the handler ran.
Refused(op, user, table, status, auth, validated) ==
    RowCall(op, user, table, 0, 0, 0, NoSearch, status, auth, validated, {}, {})

\* The rows selected when the WHERE clause has no user_id condition.
WhereUser_All(t, u) == TableRowids(t)

\* if 'user_id' in valid_columns: where_conditions.append("user_id = :current_user_id")
WhereUser(t, u) ==
    IF "user_id" \in ColumnNames(t)
    THEN {r.rowid : r \in {q \in rows : q.user_id = u}}
    ELSE TableRowids(t)

\* col LIKE '%term%' on the text column name; names are single letters, so the
\* pattern matches exactly the equal name, and NULL matches nothing.
WhereSearch(t, search) ==
    IF search = NoSearch
    THEN TableRowids(t)
    ELSE {r.rowid : r \in {q \in rows : q.name # NullText /\ q.name = search}}

\* LIMIT :limit OFFSET :offset over the rows in rowid order.
LimitOffset(S, limit, offset) ==
    {i \in S : LET before == Cardinality({j \in S : j < i})
               IN  offset <= before /\ before < offset + limit}

\* The rowids get_table_rows returns for one page.
PageRows(t, u, page, page_size, search) ==
    LimitOffset(WhereUser(t, u) \cap WhereSearch(t, search),
                Min(page_size, MAX_PAGE_SIZE), page * Min(page_size, MAX_PAGE_SIZE))

\* SELECT COUNT(*) with the same WHERE clause.
TotalRows(t, u, search) == Cardinality(WhereUser(t, u) \cap WhereSearch(t, search))

\* (total + page_size - 1) // page_size if total > 0 else 1 divides by zero for
\* page_size = 0, and `except Exception` turns the ZeroDivisionError into HTTP 500.
get_table_rows(table_name, page, page_size, search, current_user_id) ==
    /\ UNCHANGED <<workspaces, members, invitations, now, rows, reqs, catalog>>
    /\ IF current_user_id = Anonymous
       THEN last' = Refused("get_table_rows", current_user_id, table_name, 401,
                            FALSE, FALSE)
       ELSE IF validate_table_access(table_name, current_user_id) # "ok"
       THEN last' = Refused("get_table_rows", current_user_id, table_name, 403,
                            TRUE, FALSE)
       ELSE IF /\ TotalRows(table_name, current_user_id, search) > 0
               /\ Min(page_size, MAX_PAGE_SIZE) = 0
       THEN last' = RowCall("get_table_rows", current_user_id, table_name, 0, page,
                            page_size, search, 500, TRUE, TRUE, {table_name}, {})
       ELSE last' = RowCall("get_table_rows", current_user_id, table_name, 0, page,
                            page_size, search, 200, TRUE, TRUE, {table_name},
                            {<<table_name, i>> :
                               i \in PageRows(table_name, current_user_id, page,
                                              page_size, search)})

(***************************************************************************)
(* Request bodies: row_data is a JSON object, here a sequence of           *)
(* <<key, value>> pairs with distinct keys in the order the client sent.   *)
(***************************************************************************)
Keys == {"name", "user_id", "USER_ID"}

KeyValues(k) == IF k = "name" THEN Names ELSE RowCallers

Pairs == UNION {{<<k, v>> : v \in KeyValues(k)} : k \in Keys}

\* The bodies sent: empty, one pair, or the user id column spelled both ways.
RowDatas ==
    {<<>>} \cup {<<p>> : p \in Pairs}
           \cup {pq \in {<<p, q>> : p \in Pairs, q \in Pairs} :
                   {pq[1][1], pq[2][1]} = {"user_id", "USER_ID"}}

DictKeys(d) == {d[i][1] : i \in DOMAIN d}

\* d[k] = v of a Python dict: an existing key keeps its position.
DictSet(d, k, v) ==
    IF k \in DictKeys(d)
    THEN [i \in DOMAIN d |-> IF d[i][1] = k THEN <<k, v>> ELSE d[i]]
    ELSE Append(d, <<k, v>>)

\* {k: v for k, v in d.items() if k not in ks}
DictWithout(d, ks) == SelectSeq(d, LAMBDA p : p[1] \notin ks)

\* SQLite resolves a column name without regard to letter case.
ColumnOf(k) == IF k = "USER_ID" THEN "user_id" ELSE k

Resolved(d) == {ColumnOf(k) : k \in DictKeys(d)}

\* The value a statement gives column c: the first pair naming the column, or, when
\* none does, the value dflt.
ColumnValue(d, c, dflt) ==
    IF c \in Resolved(d)
    THEN d[CHOOSE i \in DOMAIN d :
               /\ ColumnOf(d[i][1]) = c
               /\ \A j \in DOMAIN d : ColumnOf(d[j][1]) = c => i <= j][2]
    ELSE dflt

\* The next rowid SQLite assigns: one more than the largest in the table.
NextRowid == SetMax({r.rowid : r \in rows} \cup {0}) + 1

insert_row(table_name, row_data, current_user_id) ==
    /\ UNCHANGED <<workspaces, members, invitations, now, reqs, catalog>>
    /\ IF current_user_id = Anonymous
       THEN /\ last' = Refused("insert_row", current_user_id, table_name, 401,
                               FALSE, FALSE)
            /\ UNCHANGED rows
       ELSE IF validate_table_access(table_name, current_user_id) # "ok"
       THEN /\ last' = Refused("insert_row", current_user_id, table_name, 403,
                               TRUE, FALSE)
            /\ UNCHANGED rows
       ELSE IF row_data = <<>>
       THEN /\ last' = Refused("insert_row", current_user_id, table_name, 400,
                               TRUE, TRUE)
            /\ UNCHANGED rows
       ELSE LET d == IF "user_id" \in ColumnNames(table_name)
                     THEN DictSet(row_data, "user_id", current_user_id)
                     ELSE row_data
            IN  IF \/ ~(Resolved(d) \subseteq ColumnNames(table_name))
                   \/ ~(RequiredColumns(table_name) \subseteq Resolved(d))
                THEN \* the INSERT fails in the database
                     /\ last' = RowCall("insert_row", current_user_id, table_name, 0,
                                        0, 0, NoSearch, 500, TRUE, TRUE, {table_name},
                                        {})
                     /\ UNCHANGED rows
                ELSE /\ table_name = "sales"
                     /\ NextRowid <= MaxRows
                     /\ rows' = rows \cup
                                  {[rowid |-> NextRowid,
                                    user_id |-> ColumnValue(d, "user_id", NULL),
                                    name |-> ColumnValue(d, "name", NullText)]}
                     /\ last' = RowCall("insert_row", current_user_id, table_name,
                                        NextRowid, 0, 0, NoSearch, 200, TRUE, TRUE,
                                        {table_name}, {})

update_row(table_name, rowid, row_data, current_user_id) ==
    /\ UNCHANGED <<workspaces, members, invitations, now, reqs, catalog>>
    /\ IF current_user_id = Anonymous
       THEN /\ last' = Refused("update_row", current_user_id, table_name, 401,
                               FALSE, FALSE)
            /\ UNCHANGED rows
       ELSE IF validate_table_access(table_name, current_user_id) # "ok"
       THEN /\ last' = Refused("update_row", current_user_id, table_name, 403,
                               TRUE, FALSE)
            /\ UNCHANGED rows
       ELSE IF row_data = <<>>
       THEN /\ last' = Refused("update_row", current_user_id, table_name, 400,
                               TRUE, TRUE)
            /\ UNCHANGED rows
       ELSE LET d == DictWithout(row_data, {"rowid", "user_id"})
                matched == IF "user_id" \in ColumnNames(table_name)
                           THEN {r \in rows : r.rowid = rowid /\ r.user_id = current_user_id}
                           ELSE {r \in rows : r.rowid = rowid}
                found == IF table_name = "sales" THEN matched # {}
                         ELSE rowid \in TableRowids(table_name)
                status == IF d = <<>> \/ ~(Resolved(d) \subseteq ColumnNames(table_name))
                          THEN 500
                          ELSE IF found THEN 200 ELSE 404
            IN  /\ last' = RowCall("update_row", current_user_id, table_name, rowid,
                                   0, 0, NoSearch, status, TRUE, TRUE, {table_name}, {})
                /\ IF status = 200 /\ table_name = "sales"
                   THEN rows' = (rows \ matched) \cup
                                  {[rowid |-> r.rowid,
                                    user_id |-> ColumnValue(d, "user_id", r.user_id),
                                    name |-> ColumnValue(d, "name", r.name)] :
                                     r \in matched}
                   ELSE \* the workspaces columns a request can set are not in the model
                        UNCHANGED rows

delete_row(table_name, rowid, current_user_id) ==
    /\ UNCHANGED <<members, invitations, now, reqs, catalog>>
    /\ IF current_user_id = Anonymous
       THEN /\ last' = Refused("delete_row", current_user_id, table_name, 401,
                               FALSE, FALSE)
            /\ UNCHANGED <<rows, workspaces>>
       ELSE IF validate_table_access(table_name, current_user_id) # "ok"
       THEN /\ last' = Refused("delete_row", current_user_id, table_name, 403,
                               TRUE, FALSE)
            /\ UNCHANGED <<rows, workspaces>>
       ELSE LET matched == IF "user_id" \in ColumnNames(table_name)
                           THEN {r \in rows : r.rowid = rowid /\ r.user_id = current_user_id}
                           ELSE {r \in rows : r.rowid = rowid}
                found == IF table_name = "sales" THEN matched # {}
                         ELSE rowid \in TableRowids(table_name)
            IN  /\ last' = RowCall("delete_row", current_user_id, table_name, rowid,
                                   0, 0, NoSearch, IF found THEN 200 ELSE 404, TRUE,
                                   TRUE, {table_name}, {})
                /\ rows' = IF table_name = "sales" THEN rows \ matched ELSE rows
                \* a plain DELETE statement: the ORM cascade to the memberships and
                \* invitations of the workspace does not run
                /\ workspaces' = IF table_name = "workspaces"
                                 THEN {w \in workspaces : w.id # rowid}
                                 ELSE workspaces

\* SELECT * FROM table LIMIT min(limit, 100); the route declares no
\* get_current_user_id dependency and does not call validate_table_access.
preview_table(table_name, caller) ==
    /\ UNCHANGED <<workspaces, members, invitations, now, rows, reqs, catalog>>
    /\ IF table_name \notin TableNames
       THEN last' = Refused("preview_table", caller, table_name, 404, FALSE, FALSE)
       ELSE last' = RowCall("preview_table", caller, table_name, 0, 0, 0, NoSearch,
                            200, FALSE, FALSE, {table_name},
                            {<<table_name, i>> :
                               i \in LimitOffset(TableRowids(table_name),
                                                 Min(PREVIEW_LIMIT, 100), 0)})

\* DashboardBuilder.execute_widget_query for the statement SELECT * FROM table: an
\* error of the statement is swallowed and the result is the empty list.
execute_widget_query(table_name) ==
    IF table_name \in TableNames
    THEN {<<table_name, i>> : i \in TableRowids(table_name)}
    ELSE {}

execute_widget(table_name, caller) ==
    /\ UNCHANGED <<workspaces, members, invitations, now, rows, reqs, catalog>>
    /\ last' = RowCall("execute_widget", caller, table_name, 0, 0, 0, NoSearch, 200,
                       FALSE, FALSE, {table_name} \cap TableNames,
                       execute_widget_query(table_name))

\* One SELECT * FROM table per widget of the list.
execute_all_widgets(widgets, caller) ==
    /\ UNCHANGED <<workspaces, members, invitations, now, rows, reqs, catalog>>
    /\ last' = RowCall("execute_all_widgets", caller, NoTable, 0, 0, 0, NoSearch, 200,
                       FALSE, FALSE, widgets \cap TableNames,
                       UNION {execute_widget_query(t) : t \in widgets})

\* analyze_data: the HTTPException(403) of a failed validation is raised inside the
\* try block and caught by `except Exception`, and AIEngine(table_name=..., user_id=...)
\* raises TypeError because AIEngine.__init__ takes no user_id; both end in HTTP 500
\* before any SQL is generated or run.
analyze_data(table_name, current_user_id) ==
    /\ UNCHANGED <<workspaces, members, invitations, now, rows, reqs, catalog>>
    /\ IF current_user_id = Anonymous
       THEN last' = Refused("analyze_data", current_user_id, table_name, 401,
                            FALSE, FALSE)
       ELSE last' = Refused("analyze_data", current_user_id, table_name, 500, TRUE,
                            /\ table_name # NoTable
                            /\ validate_table_access(table_name, current_user_id) = "ok")

\* The contents an uploaded file can give the data table: rows 1..n with any owner
\* and name (file_handler.upload_file writes the file's columns as they are).
UploadedTables ==
    {S \in SUBSET [rowid : 1 .. MaxRows - 1, user_id : RowCallers, name : Names] :
        /\ \A r, q \in S : r.rowid = q.rowid => r = q
        /\ \A r \in S : \A i \in 1 .. r.rowid : \E q \in S : q.rowid = i}

\* The database after user 1 created a workspace and a file was uploaded.
InitRows ==
    /\ workspaces = {Workspace(1, 1, "team")}
    /\ members = {[workspace_id |-> 1, user_id |-> 1, role |-> "owner"]}
    /\ invitations = {}
    /\ now = 0
    /\ reqs = NoRequests
    /\ InitCatalog
    /\ rows \in UploadedTables
    /\ last = Refused("init", Anonymous, NoTable, 0, FALSE, FALSE)

Callers == RowCallers \cup {Anonymous}

Rowids == 1 .. MaxRows

NextRows ==
    \/ \E t \in Tables, p \in Pages, z \in PageSizes, u \in Callers :
         \E s \in (IF t = "sales" THEN Searches ELSE {NoSearch}) :
            get_table_rows(t, p, z, s, u)
    \/ \E t \in Tables, d \in RowDatas, u \in Callers : insert_row(t, d, u)
    \/ \E t \in Tables, i \in Rowids, d \in RowDatas, u \in Callers : update_row(t, i, d, u)
    \/ \E t \in Tables, i \in Rowids, u \in Callers : delete_row(t, i, u)
    \/ \E t \in Tables, u \in Callers : preview_table(t, u)
    \/ \E t \in Tables, u \in Callers : execute_widget(t, u)
    \/ \E ws \in SUBSET {"sales", "workspaces"}, u \in Callers : execute_all_widgets(ws, u)
    \/ \E t \in Tables \cup {NoTable}, u \in Callers : analyze_data(t, u)

SpecRows == InitRows /\ [][NextRows]_vars

(***************************************************************************)
(* Requests in flight.  The routes of backend/examples/secure_api_patterns *)
(* run statement by statement, each request in its own database session,   *)
(* so the statements of two requests interleave.  A request is a record in *)
(* reqs: its slot (id), route (op), position (pc), caller (user), path     *)
(* workspace (ws), the user whose membership row member_id names (member), *)
(* the body's role or name (arg) and the value read so far (seen).         *)
(***************************************************************************)
ReqIds == 1 .. MaxRequests

Request(id, op, pc, user, ws, member, arg, seen) ==
    [id |-> id, op |-> op, pc |-> pc, user |-> user, ws |-> ws, member |-> member,
     arg |-> arg, seen |-> seen]

\* The response of a finished request.
Response(q, status) == Call(q.op, q.user, q.ws, q.member, "", "response", status)

\* The request moves on to position pc, remembering the value seen.
Goto(q, pc, seen) ==
    /\ reqs' = (reqs \ {q}) \cup {[q EXCEPT !.pc = pc, !.seen = seen]}
    /\ UNCHANGED catalog

\* The request ends with the HTTP status.
Finish(q, status) ==
    /\ UNCHANGED catalog
    /\ reqs' = reqs \ {q}
    /\ last' = Response(q, status)

\* A client sends PATCH or DELETE /{workspace_id}/members/{member_id}.
api_request(id, op, user, ws, member, arg) ==
    /\ \A q \in reqs : q.id # id
    /\ UNCHANGED catalog
    /\ reqs' = reqs \cup {Request(id, op, "access", user, ws, member, arg, 0)}
    /\ UNCHANGED <<workspaces, members, invitations, now, rows, last>>

\* The dependency require_workspace_access(required_role=WorkspaceRole.OWNER).
api_require_access(id) ==
    \E q \in reqs :
       /\ q.id = id
       /\ q.pc = "access"
       /\ \E access \in AccessStatus(q.ws, q.user, "owner") :
             IF access = 403
             THEN Finish(q, 403)
             ELSE /\ Goto(q, IF q.op = "api_update_member_role" /\ q.arg # "owner"
                             THEN "count" ELSE "member", 0)
                  /\ UNCHANGED last
       /\ UNCHANGED <<workspaces, members, invitations, now, rows>>

\* update_member_role: SELECT COUNT(*) ... WHERE role = 'owner'
api_update_member_role_count(id) ==
    \E q \in reqs :
       /\ q.id = id
       /\ q.op = "api_update_member_role"
       /\ q.pc = "count"
       /\ Goto(q, "last_owner", Cardinality(Owners(q.ws)))
       /\ UNCHANGED <<workspaces, members, invitations, now, rows, last>>

\* update_member_role: SELECT user_id, role ... WHERE id = :member_id, and the
\* refusal to demote the last owner.
api_update_member_role_last_owner(id) ==
    \E q \in reqs :
       /\ q.id = id
       /\ q.op = "api_update_member_role"
       /\ q.pc = "last_owner"
       /\ IF \E member \in MemberRows(q.ws, q.member) :
                member.role = "owner" /\ q.seen = 1
          THEN Finish(q, 400)
          ELSE Goto(q, "member", 0) /\ UNCHANGED last
       /\ UNCHANGED <<workspaces, members, invitations, now, rows>>

\* update_member_role: the UPDATE, the rowcount check and the commit.
api_update_member_role(id) ==
    \E q \in reqs :
       /\ q.id = id
       /\ q.op = "api_update_member_role"
       /\ q.pc = "member"
       /\ IF MemberRows(q.ws, q.member) = {}
          THEN Finish(q, 404) /\ UNCHANGED members
          ELSE /\ members' = {IF m \in MemberRows(q.ws, q.member)
                              THEN [m EXCEPT !.role = q.arg] ELSE m : m \in members}
               /\ Finish(q, 200)
       /\ UNCHANGED <<workspaces, invitations, now, rows>>

\* remove_workspace_member: the SELECT of the member and the refusal to remove
\* oneself as owner.
api_remove_workspace_member_lookup(id) ==
    \E q \in reqs :
       /\ q.id = id
       /\ q.op = "api_remove_workspace_member"
       /\ q.pc = "member"
       /\ IF MemberRows(q.ws, q.member) = {}
          THEN Finish(q, 404)
          ELSE IF \E member \in MemberRows(q.ws, q.member) :
                     member.user_id = q.user /\ member.role = "owner"
          THEN Finish(q, 400)
          ELSE Goto(q, "delete", 0) /\ UNCHANGED last
       /\ UNCHANGED <<workspaces, members, invitations, now, rows>>

\* remove_workspace_member: the DELETE, the rowcount check and the commit.
api_remove_workspace_member(id) ==
    \E q \in reqs :
       /\ q.id = id
       /\ q.op = "api_remove_workspace_member"
       /\ q.pc = "delete"
       /\ IF MemberRows(q.ws, q.member) = {}
          THEN Finish(q, 404) /\ UNCHANGED members
          ELSE /\ members' = members \ MemberRows(q.ws, q.member)
               /\ Finish(q, 200)
       /\ UNCHANGED <<workspaces, invitations, now, rows>>

\* A team workspace whose creator has added user 2 as editor.
InitTeam ==
    /\ workspaces = {Workspace(1, 1, "team")}
    /\ members = {[workspace_id |-> 1, user_id |-> 1, role |-> "owner"],
                  [workspace_id |-> 1, user_id |-> 2, role |-> "editor"]}
    /\ invitations = {}
    /\ now = 0
    /\ reqs = NoRequests
    /\ InitCatalog
    /\ rows = {}
    /\ last = Call("init", Anonymous, 0, 0, "", "None", 0)

\* The members of the team, who send the requests.
TeamUsers == {1, 2}

\* The member routes of the examples, up to MaxRequests requests at a time.
NextTeam ==
    \/ \E id \in ReqIds, u \in TeamUsers, m \in TeamUsers, r \in Roles :
          api_request(id, "api_update_member_role", u, 1, m, r)
    \/ \E id \in ReqIds, u \in TeamUsers, m \in TeamUsers :
          api_request(id, "api_remove_workspace_member", u, 1, m, NoRole)
    \/ \E id \in ReqIds : api_require_access(id)
    \/ \E id \in ReqIds : api_update_member_role_count(id)
    \/ \E id \in ReqIds : api_update_member_role_last_owner(id)
    \/ \E id \in ReqIds : api_update_member_role(id)
    \/ \E id \in ReqIds : api_remove_workspace_member_lookup(id)
    \/ \E id \in ReqIds : api_remove_workspace_member(id)

SpecTeam == InitTeam /\ [][NextTeam]_vars

(***************************************************************************)
(* backend/workspace_service.py, one query or commit at a time.  Each call *)
(* runs in its own database session, so between a query of one call and    *)
(* its commit another call's commit can land.  The membership rows carry   *)
(* their primary key id here, so two rows of the same workspace, user and  *)
(* role are two rows.                                                      *)
(***************************************************************************)

\* The call returns ret.
Return(q, ret) ==
    /\ UNCHANGED catalog
    /\ reqs' = reqs \ {q}
    /\ last' = Call(q.op, q.user, q.ws, q.member, "", ret, 0)

\* Every call in flight may still insert one membership row.
RoomForCall == Cardinality(members) + Cardinality(reqs) < MaxMembers

\* WorkspaceMember(workspace_id, user_id, role) after db.add and db.commit.
MemberRow(w, u, role) == [id |-> NextId(members), workspace_id |-> w, user_id |-> u, role |-> role]

\* create_workspace up to its first db.commit(): the workspace row is stored.
create_workspace_commit(id, owner_id) ==
    /\ \A q \in reqs : q.id # id
    /\ Cardinality(workspaces) < MaxWorkspaces
    /\ RoomForCall
    /\ LET wid == NextId(workspaces) IN
        /\ workspaces' = workspaces \cup {Workspace(wid, owner_id, "team")}
        /\ UNCHANGED catalog
        /\ reqs' = reqs \cup {Request(id, "create_workspace", "member", owner_id, wid, owner_id, "owner", 0)}
    /\ UNCHANGED <<members, invitations, now, rows, last>>

\* create_workspace from the owner's WorkspaceMember to its second db.commit().
create_workspace_member(id) ==
    \E q \in reqs :
       /\ q.id = id
       /\ q.op = "create_workspace"
       /\ members' = members \cup {MemberRow(q.ws, q.user, "owner")}
       /\ Return(q, "workspace")
       /\ UNCHANGED <<workspaces, invitations, now, rows>>

\* The second db.commit() of create_workspace raises (the database is locked or
\* gone): the exception leaves the call, the workspace row is already committed.
create_workspace_fail(id) ==
    \E q \in reqs :
       /\ q.id = id
       /\ q.op = "create_workspace"
       /\ Return(q, "raise")
       /\ UNCHANGED <<workspaces, members, invitations, now, rows>>

\* add_member up to the query of the new member's user.
add_member_begin(id, workspace_id, user_id, new_member_email, role) ==
    /\ \A q \in reqs : q.id # id
    /\ RoomForCall
    /\ IF OwnerOrEditor(workspace_id, user_id) = {} \/ UsersByEmail(new_member_email) = {}
       THEN /\ last' = Call("add_member", user_id, workspace_id, 0, "", "None", 0)
            /\ UNCHANGED <<reqs, catalog>>
       ELSE \E new_user \in UsersByEmail(new_member_email) :
            /\ UNCHANGED catalog
            /\ reqs' = reqs \cup
                  {Request(id, "add_member", "existing", user_id, workspace_id, new_user, role, 0)}
            /\ UNCHANGED last
    /\ UNCHANGED <<workspaces, members, invitations, now, rows>>

\* add_member: the query "Check if already a member".
add_member_existing(id) ==
    \E q \in reqs :
       /\ q.id = id
       /\ q.op = "add_member"
       /\ q.pc = "existing"
       /\ IF MemberRows(q.ws, q.member) # {}
          THEN Return(q, "None")
          ELSE Goto(q, "commit", 0) /\ UNCHANGED last
       /\ UNCHANGED <<workspaces, members, invitations, now, rows>>

\* add_member: db.add(member) and db.commit().
add_member_commit(id) ==
    \E q \in reqs :
       /\ q.id = id
       /\ q.op = "add_member"
       /\ q.pc = "commit"
       /\ members' = members \cup {MemberRow(q.ws, q.member, q.arg)}
       /\ Return(q, "member")
       /\ UNCHANGED <<workspaces, invitations, now, rows>>

\* accept_invitation up to the check of the user's email.
accept_invitation_begin(id, token, user_id) ==
    /\ \A q \in reqs : q.id # id
    /\ RoomForCall
    /\ IF AcceptableInvitations(token) = {}
       THEN /\ last' = Call("accept_invitation", user_id, 0, token, "", "None", 400)
            /\ UNCHANGED <<reqs, catalog>>
       ELSE \E invitation \in AcceptableInvitations(token) :
            IF EmailOf[user_id] # invitation.email
            THEN /\ last' = Call("accept_invitation", user_id, 0, token, "", "None", 400)
                 /\ UNCHANGED <<reqs, catalog>>
            ELSE /\ UNCHANGED catalog
                 /\ reqs' = reqs \cup
                       {Request(id, "accept_invitation", "existing", user_id,
                                invitation.workspace_id, user_id, invitation.role, invitation.id)}
                 /\ UNCHANGED last
    /\ UNCHANGED <<workspaces, members, invitations, now, rows>>

\* accept_invitation: the query "Check if already a member".
accept_invitation_existing(id) ==
    \E q \in reqs :
       /\ q.id = id
       /\ q.op = "accept_invitation"
       /\ q.pc = "existing"
       /\ IF MemberRows(q.ws, q.member) # {}
          THEN Return(q, "existing")
          ELSE Goto(q, "commit", q.seen) /\ UNCHANGED last
       /\ UNCHANGED <<workspaces, members, invitations, now, rows>>

\* accept_invitation: db.add(member), the invitation marked accepted, db.commit().
accept_invitation_commit(id) ==
    \E q \in reqs :
       /\ q.id = id
       /\ q.op = "accept_invitation"
       /\ q.pc = "commit"
       /\ members' = members \cup {MemberRow(q.ws, q.member, q.arg)}
       /\ invitations' = {IF i.id = q.seen
                          THEN [i EXCEPT !.accepted_at = now, !.is_active = FALSE]
                          ELSE i : i \in invitations}
       /\ Return(q, "member")
       /\ UNCHANGED <<workspaces, now, rows>>

\* The service called from up to MaxRequests sessions at a time.
NextSessions ==
    \/ \E id \in ReqIds, u \in Users : create_workspace_commit(id, u)
    \/ \E id \in ReqIds : create_workspace_member(id)
    \/ \E id \in ReqIds : create_workspace_fail(id)
    \/ \E id \in ReqIds, w \in WorkspaceIds, u \in Users, e \in Emails, r \in Roles :
          add_member_begin(id, w, u, e, r)
    \/ \E id \in ReqIds : add_member_existing(id)
    \/ \E id \in ReqIds : add_member_commit(id)
    \/ \E w \in WorkspaceIds, u \in Users, e \in Emails, r \in Roles :
          create_invitation(w, u, e, r)
    \/ \E id \in ReqIds, t \in Tokens, u \in Users : accept_invitation_begin(id, t, u)
    \/ \E id \in ReqIds : accept_invitation_existing(id)
    \/ \E id \in ReqIds : accept_invitation_commit(id)

SpecSessions == Init /\ [][NextSessions]_vars

(***************************************************************************)
(* backend/services/workspace_service.py: invite_member                    *)
(***************************************************************************)

\* str.lower() on the addresses the callers send.
Lower(email) == IF email = "B@x.com" THEN "b@x.com" ELSE email

\* The addresses sent to invite_member, one of them with a capital letter.
InviteEmails == Emails \cup {"B@x.com"}

\* WorkspaceService.invite_member: _verify_owner, then the INSERT and the commit.
\* The token (secrets.token_urlsafe) is a fresh value: the new row's id.
svc_invite_member(user_id, workspace_id, email, role) ==
    /\ UNCHANGED <<workspaces, members, now, rows, reqs, catalog>>
    /\ IF ~(\E access \in members : verify_owner(workspace_id, user_id, access))
       THEN /\ UNCHANGED invitations
            /\ last' = Call("invite_member", user_id, workspace_id, 0, "",
                            "WorkspaceAccessError", 403)
       ELSE /\ Cardinality(invitations) < MaxInvited
            /\ LET iid == NextId(invitations) IN
                /\ invitations' = invitations \cup
                      {[id |-> iid, workspace_id |-> workspace_id, email |-> Lower(email),
                        role |-> role, token |-> iid,
                        expires_at |-> now + INVITE_DAYS,
                        accepted_at |-> NULL, is_active |-> TRUE]}
                /\ last' = Call("invite_member", user_id, workspace_id, iid, "",
                                "invitation", 200)

\* The two ways to invite, by any user with any argument, and the clock.
NextInvited ==
    \/ \E u \in Users : create_workspace(u)
    \/ \E w \in WorkspaceIds, u \in Users, e \in Emails, r \in Roles :
          create_invitation(w, u, e, r)
    \/ \E w \in WorkspaceIds, u \in Users, e \in InviteEmails, r \in Roles :
          svc_invite_member(u, w, e, r)
    \/ Tick

SpecInvited == Init /\ [][NextInvited]_vars

(***************************************************************************)
(* backend/examples/secure_api_patterns.py: create_workspace, one          *)
(* statement at a time.  A slug is the pair of the base slug and the       *)
(* number appended to it, 0 for the base slug alone.                       *)
(***************************************************************************)

\* The names the clients send.
WorkspaceNames == {"Team A", "team a", "Ops"}

\* re.sub(r'[^a-z0-9]+', '-', request.name.lower()).strip('-')
BaseSlug(name) == IF name \in {"Team A", "team a"} THEN "team-a" ELSE "ops"

\* SELECT id FROM workspaces WHERE slug = :slug
SlugRows(slug) == {w \in workspaces : w.slug = slug}

\* create_workspace up to the first pass of the slug loop: slug = base_slug.
api_create_workspace_begin(id, user_id, name) ==
    /\ \A q \in reqs : q.id # id
    /\ RoomForCall
    /\ UNCHANGED catalog
    /\ reqs' = reqs \cup {Request(id, "api_create_workspace", "slug", user_id, 0, 0, BaseSlug(name), 0)}
    /\ UNCHANGED <<workspaces, members, invitations, now, rows, last>>

\* One pass of "while True": the SELECT, then break or the next candidate.
api_create_workspace_slug(id) ==
    \E q \in reqs :
       /\ q.id = id
       /\ q.op = "api_create_workspace"
       /\ q.pc = "slug"
       /\ IF SlugRows(<<q.arg, q.seen>>) = {}
          THEN Goto(q, "insert", q.seen)
          ELSE Goto(q, "slug", q.seen + 1)
       /\ UNCHANGED <<workspaces, members, invitations, now, rows, last>>

\* The two INSERTs and the commit.  The schema of workspaces is not part of the
\* sources: when the slug is taken by now, the store either refuses the INSERT (a
\* unique index on slug, the exception becomes a 500) or keeps both rows.
api_create_workspace(id) ==
    \E q \in reqs :
       /\ q.id = id
       /\ q.op = "api_create_workspace"
       /\ q.pc = "insert"
       /\ \/ /\ SlugRows(<<q.arg, q.seen>>) # {}
             /\ Finish(q, 500)
             /\ UNCHANGED <<workspaces, members>>
          \/ LET wid == NextId(workspaces) IN
               /\ workspaces' = workspaces \cup
                     {[slug |-> <<q.arg, q.seen>>] @@ Workspace(wid, q.user, "team")}
               /\ members' = members \cup
                     {[workspace_id |-> wid, user_id |-> q.user, role |-> "owner"]}
               /\ UNCHANGED catalog
               /\ reqs' = reqs \ {q}
               /\ last' = Response([q EXCEPT !.ws = wid], 200)
       /\ UNCHANGED <<invitations, now, rows>>

\* POST /api/workspaces from up to MaxRequests clients at a time.
NextSlugs ==
    \/ \E id \in ReqIds, u \in TeamUsers, n \in WorkspaceNames :
          api_create_workspace_begin(id, u, n)
    \/ \E id \in ReqIds : api_create_workspace_slug(id)
    \/ \E id \in ReqIds : api_create_workspace(id)

SpecSlugs == Init /\ [][NextSlugs]_vars

(***************************************************************************)
(* backend/auth.py: get_current_user_id.  A bearer token is what a client  *)
(* sends: readable as a JWT or not, with its claims sub, email, exp and    *)
(* user_metadata.full_name, and with the answer the Supabase user endpoint *)
(* would give for it (verified).                                           *)
(***************************************************************************)

\* A claim the token does not carry (None or the empty string).
NoClaim == ""

\* exp, as a time of the model's clock: absent, 0, or the middle of the first period.
ExpClaims == {NULL, 0, 3}

Credentials ==
    {c \in [readable : BOOLEAN, sub : {NoClaim, "uid-9"},
            email : {NoClaim, "nobody@x.com", "a@x.com"}, exp : ExpClaims,
            name : {NoClaim, "Nobody"}, verified : BOOLEAN] :
        ~c.readable => (/\ c.sub = NoClaim
                        /\ c.email = NoClaim
                        /\ c.exp = NULL
                        /\ c.name = NoClaim
                        /\ ~c.verified)}

\* The payload decode_supabase_token_sync returns None.
NoPayload == [sub |-> NoClaim, email |-> NoClaim, name |-> NoClaim, none |-> TRUE]

\* exp and datetime.utcnow().timestamp() > exp
Expired(exp) == exp # NULL /\ exp # 0 /\ now > exp

\* decode_supabase_token_sync: the claims are read without verifying the signature.
decode_supabase_token_sync(token) ==
    IF ~token.readable THEN NoPayload
    ELSE IF Expired(token.exp) THEN NoPayload
    ELSE IF token.sub = NoClaim THEN NoPayload
    ELSE [sub |-> token.sub, email |-> token.email, name |-> token.name, none |-> FALSE]

\* The columns of User in backend/database.py.
UserColumns == {"id", "email", "hashed_password", "full_name", "created_at"}

\* A request arrives with a bearer token.
auth_request(id, token) ==
    /\ \A q \in reqs : q.id # id
    /\ UNCHANGED catalog
    /\ reqs' = reqs \cup {Request(id, "get_current_user_id", "decode", Anonymous, 0, 0, "", token)}
    /\ UNCHANGED <<workspaces, members, invitations, now, rows, last>>

\* An HTTPException or an unhandled exception ends the request.
Raise(q, exception, status) ==
    /\ UNCHANGED catalog
    /\ reqs' = reqs \ {q}
    /\ last' = Call(q.op, Anonymous, 0, 0, "", exception, status)

\* get_current_user_id up to "if payload is None".
get_current_user_id_decode(id) ==
    \E q \in reqs :
       /\ q.id = id
       /\ q.op = "get_current_user_id"
       /\ q.pc = "decode"
       /\ IF decode_supabase_token_sync(q.seen).none
          THEN Raise(q, "HTTPException", 401)
          ELSE Goto(q, "claims", q.seen) /\ UNCHANGED last
       /\ UNCHANGED <<workspaces, members, invitations, now, rows>>

\* get_current_user_id from the claims to the query by Supabase UID.  full_name
\* is computed before the claims are tested: email.split on None raises.  User has
\* no column supabase_uid, so the query expression raises and what follows it,
\* the query by email, the insert of a new User and the return of user.id, is
\* not reached.
get_current_user_id(id) ==
    \E q \in reqs :
       /\ q.id = id
       /\ q.op = "get_current_user_id"
       /\ q.pc = "claims"
       /\ LET payload == decode_supabase_token_sync(q.seen) IN
             IF payload.name = NoClaim /\ payload.email = NoClaim
             THEN Raise(q, "AttributeError", 500)
             ELSE IF payload.sub = NoClaim \/ payload.email = NoClaim
             THEN Raise(q, "HTTPException", 401)
             ELSE IF "supabase_uid" \notin UserColumns
             THEN Raise(q, "AttributeError", 500)
             ELSE Raise(q, "user.id", 200)
       /\ UNCHANGED <<workspaces, members, invitations, now, rows>>

\* Requests with any token, up to MaxRequests at a time, and the clock.
NextAuth ==
    \/ \E id \in ReqIds, token \in Credentials : auth_request(id, token)
    \/ \E id \in ReqIds : get_current_user_id_decode(id)
    \/ \E id \in ReqIds : get_current_user_id(id)
    \/ Tick

SpecAuth == Init /\ [][NextAuth]_vars

(***************************************************************************)
(* Workspace settings and deletion: backend/workspace_service.py and       *)
(* backend/services/workspace_service.py.                                  *)
(***************************************************************************)

\* The argument left out (None).
NoValue == "None"

\* The name argument of update_workspace: left out, empty or a new name.
UpdateNames == {NoValue, "", "N"}

\* The description argument of update_workspace: left out or a new description.
UpdateDescriptions == {NoValue, "D"}

\* if name: workspace.name = name / if description is not None: workspace.description = description
UpdatedFields(w, name, description) == [w EXCEPT !.name = IF name \in {NoValue, ""} THEN @ ELSE name, !.description = IF description = NoValue THEN @ ELSE description]

\* WorkspaceService.update_workspace of backend/workspace_service.py and the
\* endpoint's 403 mapping: the workspace is looked up by id and owner_id.
update_workspace(workspace_id, user_id, name, description) ==
    /\ UNCHANGED <<members, invitations, now, rows, reqs, catalog>>
    /\ IF {w \in workspaces : w.id = workspace_id /\ w.owner_id = user_id} = {}
       THEN /\ UNCHANGED workspaces
            /\ last' = Call("update_workspace", user_id, workspace_id, 0, "", "None", 403)
       ELSE /\ workspaces' = {IF w.id = workspace_id /\ w.owner_id = user_id
                              THEN UpdatedFields(w, name, description) ELSE w : w \in workspaces}
            /\ last' = Call("update_workspace", user_id, workspace_id, 0, "", "workspace", 200)

\* WorkspaceService.update_workspace of backend/services/workspace_service.py.
svc_update_workspace(user_id, workspace_id, name, description) ==
    /\ UNCHANGED <<members, invitations, now, rows, reqs, catalog>>
    /\ IF ~(\E access \in MemberRows(workspace_id, user_id) : access.role = "owner")
       THEN /\ UNCHANGED workspaces
            /\ last' = Call("svc_update_workspace", user_id, workspace_id, 0, "",
                            "WorkspaceAccessError", 403)
       ELSE /\ workspaces' = {IF w.id = workspace_id
                              THEN UpdatedFields(w, name, description) ELSE w : w \in workspaces}
            /\ last' = Call("svc_update_workspace", user_id, workspace_id, 0, "",
                            "workspace", 200)

\* WorkspaceService.delete_workspace of backend/workspace_service.py and the
\* endpoint's 403 mapping: a soft delete, is_active = False.
delete_workspace(workspace_id, user_id) ==
    /\ UNCHANGED <<members, invitations, now, rows, reqs, catalog>>
    /\ IF {w \in workspaces : w.id = workspace_id /\ w.owner_id = user_id} = {}
       THEN /\ UNCHANGED workspaces
            /\ last' = Call("delete_workspace", user_id, workspace_id, 0, "", "False", 403)
       ELSE /\ workspaces' = {IF w.id = workspace_id /\ w.owner_id = user_id
                              THEN [w EXCEPT !.is_active = FALSE] ELSE w : w \in workspaces}
            /\ last' = Call("delete_workspace", user_id, workspace_id, 0, "", "True", 200)

\* WorkspaceService.list_members and the endpoint's 403 mapping of the empty list;
\* data is the set of users listed.
list_members(workspace_id, user_id) ==
    /\ UNCHANGED <<workspaces, members, invitations, now, rows, reqs, catalog>>
    /\ IF MemberRows(workspace_id, user_id) = {}
       THEN last' = Call("list_members", user_id, workspace_id, 0, "", "[]", 403)
       ELSE last' = [Call("list_members", user_id, workspace_id, 0, "", "members", 200) EXCEPT !.data = {m.user_id : m \in {x \in members : x.workspace_id = workspace_id}}]

\* The settings and the deletion of a workspace with the calls that fill it, by
\* any user with any argument.
NextSettings ==
    \/ \E u \in Users : create_workspace(u)
    \/ \E w \in WorkspaceIds, u \in Users, e \in Emails, r \in Roles : add_member(w, u, e, r)
    \/ \E w \in WorkspaceIds, u \in Users, e \in Emails, r \in Roles :
          create_invitation(w, u, e, r)
    \/ \E t \in Tokens, u \in Users : accept_invitation(t, u)
    \/ \E w \in WorkspaceIds, u \in Users, n \in UpdateNames, d \in UpdateDescriptions :
          update_workspace(w, u, n, d)
    \/ \E w \in WorkspaceIds, u \in Users, n \in UpdateNames, d \in UpdateDescriptions :
          svc_update_workspace(u, w, n, d)
    \/ \E w \in WorkspaceIds, u \in Users : delete_workspace(w, u)
    \/ \E w \in WorkspaceIds, u \in Users : list_members(w, u)

SpecSettings == Init /\ [][NextSettings]_vars

(***************************************************************************)
(* backend/security.py: get_user_filtered_query.  A query is the sequence  *)
(* of its parts: the SELECT list with its FROM, then each keyword followed *)
(* by its operand.                                                         *)
(***************************************************************************)

\* The clause keywords the function looks for, in the order of its list.
FilterKeywords == <<"ORDER BY", "LIMIT", "OFFSET", "GROUP BY">>

\* The clauses of a SELECT statement in the order SQL wants them.
ClauseOrder == <<"GROUP BY", "ORDER BY", "LIMIT", "OFFSET">>

\* WHERE as the callers spell it.
WhereSpellings == {"WHERE", "where", "Where"}

\* str.upper() on a part of a query.
UpperPart(part) == IF part \in WhereSpellings THEN "WHERE" ELSE part

\* f"user_id = {user_id}"
UserCondition(user_id) == IF user_id = 1 THEN "user_id = 1" ELSE "user_id = 2"

\* The queries with the given clauses, in SQL's order, after the head.
RECURSIVE Clauses(_, _)
Clauses(present, k) == IF k > Len(ClauseOrder) THEN <<>> ELSE (IF ClauseOrder[k] \in present THEN <<ClauseOrder[k], "x">> ELSE <<>>) \o Clauses(present, k + 1)

\* The base queries: none, or SELECT * FROM t, an optional WHERE x = 1 in any
\* spelling, and any combination of the clauses.
BaseQueries(t) ==
    {<<>>} \cup
    {<<"SELECT * FROM", t>> \o w \o Clauses(present, 1) :
        w \in {<<>>} \cup {<<s, "x = 1">> : s \in WhereSpellings},
        present \in SUBSET {ClauseOrder[k] : k \in 1 .. Len(ClauseOrder)}}

\* The positions of a part in a query.
Positions(query, part) == {i \in 1 .. Len(query) : query[i] = part}

\* The smallest element of a non-empty set of numbers.
SetMin(S) == CHOOSE x \in S : \A y \in S : x <= y

\* The query with the parts ins put before position i.
InsertAt(query, i, ins) == SubSeq(query, 1, i - 1) \o ins \o SubSeq(query, i, Len(query))

\* The keywords of the function's list that the query contains, by list position.
KeywordsFound(query) == {k \in 1 .. Len(FilterKeywords) : Positions(query, FilterKeywords[k]) # {}}

\* get_user_filtered_query; the empty sequence is None or "".
get_user_filtered_query(table_name, user_id, base_query) ==
    IF "user_id" \notin ColumnNames(table_name) THEN base_query
    ELSE IF base_query = <<>> THEN <<"WHERE", UserCondition(user_id)>>
    ELSE IF \E i \in 1 .. Len(base_query) : UpperPart(base_query[i]) = "WHERE"
    THEN \* base_query.replace('WHERE', ..., 1): only the spelling WHERE is replaced
         IF Positions(base_query, "WHERE") = {} THEN base_query
         ELSE InsertAt(base_query, SetMin(Positions(base_query, "WHERE")) + 1, <<UserCondition(user_id), "AND">>)
    ELSE IF KeywordsFound(base_query) # {}
    THEN InsertAt(base_query, SetMin(Positions(base_query, FilterKeywords[SetMin(KeywordsFound(base_query))])), <<"WHERE", UserCondition(user_id)>>)
    ELSE base_query \o <<"WHERE", UserCondition(user_id)>>

\* What a call of get_user_filtered_query was given and returned.
FilterCall(table_name, user_id, base_query) ==
    [op |-> "get_user_filtered_query", table |-> table_name, user |-> user_id, base_query |-> base_query, query |-> get_user_filtered_query(table_name, user_id, base_query)]

\* A caller filters a query.
filter_query(table_name, user_id, base_query) ==
    /\ last' = FilterCall(table_name, user_id, base_query)
    /\ UNCHANGED <<workspaces, members, invitations, now, rows, reqs, catalog>>

\* The tables the queries are about: one with a user_id column, one without.
FilterTables == {"sales", "workspaces"}

NextFilter == \E t \in FilterTables, u \in RowCallers : \E q \in BaseQueries(t) : filter_query(t, u, q)

SpecFilter == InitRows /\ [][NextFilter]_vars

(***************************************************************************)
(* backend/dashboard_builder.py and backend/query_executor.py: the SQL of  *)
(* a dashboard widget.  The text a client sends is the sequence of its     *)
(* statements, which semicolons separate.                                  *)
(***************************************************************************)

\* The statements the clients send.
Statements == {"SELECT * FROM sales", "SELECT created_at FROM workspaces", "DELETE FROM sales", "delete from sales", "DROP TABLE sales"}

\* The texts sent as the sql of a widget: one statement or two.
WidgetSqls == {<<a>> : a \in Statements} \cup {<<a, b>> : a \in Statements, b \in Statements}

\* dangerous_keywords of QueryExecutor.execute_query
dangerous_keywords == {"DROP", "DELETE", "UPDATE", "INSERT", "ALTER", "CREATE", "TRUNCATE"}

\* The dangerous keywords that statement.upper() contains.
KeywordsIn(statement) ==
    CASE statement \in {"DELETE FROM sales", "delete from sales"} -> {"DELETE"}
      [] statement = "DROP TABLE sales" -> {"DROP"}
      [] statement = "SELECT created_at FROM workspaces" -> {"CREATE"}
      [] OTHER -> {}

\* re.search(r'\bSELECT\b', statement, re.IGNORECASE)
HasSelect(statement) == statement \in {"SELECT * FROM sales", "SELECT created_at FROM workspaces"}

\* The table a SELECT statement reads.
TableOf(statement) == IF statement = "SELECT * FROM sales" THEN "sales" ELSE "workspaces"

\* execute_widget_query before the executor: what precedes the first SELECT is
\* dropped, then what follows the first semicolon.
CleanWidgetSql(sql) ==
    IF \E i \in 1 .. Len(sql) : HasSelect(sql[i])
    THEN sql[SetMin({i \in 1 .. Len(sql) : HasSelect(sql[i])})]
    ELSE sql[1]

\* QueryExecutor.execute_query: TRUE when it raises ValueError for the statement.
ExecutorRefuses(statement) == KeywordsIn(statement) \cap dangerous_keywords # {}

\* What the route did with a widget's sql: the statement passed to db.execute
\* (executed, none when the executor refused), the response and its rows.
WidgetCall(user, sql, executed, success, data) ==
    [op |-> "execute_widget_sql", user |-> user, sql |-> sql, executed |-> executed, status |-> 200, success |-> success, data |-> data]

\* POST /api/dashboard/execute-widget with any sql: execute_widget_query returns []
\* for every exception, ValueError of the executor included, and the route answers
\* with success True.
execute_widget_sql(sql, caller) ==
    /\ UNCHANGED <<workspaces, members, invitations, now, rows, reqs, catalog>>
    /\ LET statement == CleanWidgetSql(sql) IN
          IF ExecutorRefuses(statement)
          THEN last' = WidgetCall(caller, sql, {}, TRUE, {})
          ELSE last' = WidgetCall(caller, sql, {statement}, TRUE, execute_widget_query(TableOf(statement)))

\* The analytics routes, by any caller with any statement.
NextWidgets ==
    \/ \E sql \in WidgetSqls, u \in Callers : execute_widget_sql(sql, u)
    \/ \E t \in Tables \cup {NoTable}, u \in Callers : analyze_data(t, u)

SpecWidgets == InitRows /\ [][NextWidgets]_vars

(***************************************************************************)
(* backend/table_builder.py and the table builder routes of                *)
(* backend/main.py.  A name is the sequence of its characters; the columns *)
(* of every request are one text column called name, without an automatic  *)
(* id, so a table made here has the columns user_id and name.              *)
(***************************************************************************)
LowerLetters == {"a", "b", "c", "d", "e", "f", "g", "h", "i", "j", "k", "l", "m", "n", "o", "p", "q", "r", "s", "t", "u", "v", "w", "x", "y", "z"}

Digits == {"0", "1", "2", "3", "4", "5", "6", "7", "8", "9"}

\* The table names the clients send: the data table, two mutation keywords, a
\* statement separator, a quote, a space, a path, an upper case letter, nothing.
RequestNames ==
    {<<"s", "a", "l", "e", "s">>, <<"d", "r", "o", "p">>,
     <<"t", "r", "u", "n", "c", "a", "t", "e">>, <<"a", ";", "b">>, <<"a", "'", "b">>,
     <<"a", " ", "b">>, <<".", ".", "/", "a">>, <<"A">>, <<>>}

\* The string of a sequence of characters.
RECURSIVE Text(_)
Text(name) == IF name = <<>> THEN "" ELSE name[1] \o Text(Tail(name))

RESERVED_TABLES == {"_table_metadata", "_column_metadata", "_schema_changelog"}

MAX_NAME_LENGTH == 64

\* re.match(r'^[a-z][a-z0-9_]*$', name); $ also matches before a final newline.
SnakeCase(name) ==
    LET body == IF Len(name) > 1 /\ name[Len(name)] = "\n"
                THEN SubSeq(name, 1, Len(name) - 1)
                ELSE name
    IN  /\ body[1] \in LowerLetters
        /\ \A i \in 2 .. Len(body) : body[i] \in LowerLetters \cup Digits \cup {"_"}

\* validate_name: the error, "" for a valid name.
validate_name(name, name_type) ==
    IF name = <<>> THEN "empty"
    ELSE IF Len(name) > MAX_NAME_LENGTH THEN "too long"
    ELSE IF ~SnakeCase(name) THEN "not snake_case"
    ELSE IF name_type = "table" /\ Text(name) \in RESERVED_TABLES THEN "reserved"
    ELSE ""

\* The names the database does not accept unquoted after CREATE TABLE or RENAME TO:
\* the reserved words of its grammar.
ReservedWords == {"drop", "delete", "insert", "update", "alter", "create", "select"}

\* The statements create_table sends.
TableExistsSql == "SELECT name FROM sqlite_master"

CreateSql == "CREATE TABLE"

\* create_table: whether it succeeded, the statements sent to the database in
\* order, and the tables and the _table_metadata rows afterwards.
create_table(name) ==
    LET table_name == Text(name) IN
    IF validate_name(name, "table") # ""
    THEN [success |-> FALSE, sent |-> <<>>, tables |-> tables, metadata |-> metadata]
    ELSE IF table_name \in tables
    THEN [success |-> FALSE, sent |-> <<TableExistsSql>>, tables |-> tables, metadata |-> metadata]
    ELSE IF table_name \in ReservedWords
    THEN [success |-> FALSE, sent |-> <<TableExistsSql, CreateSql>>, tables |-> tables, metadata |-> metadata]
    ELSE [success |-> TRUE, sent |-> <<TableExistsSql, CreateSql>>,
          tables |-> tables \cup {table_name}, metadata |-> metadata \cup {table_name}]

\* What a table builder route did: the name in the request, the table in the path,
\* the HTTP status and the statements sent to the database.
BuilderCall(op, name, table, status, sent) ==
    [op |-> op, name |-> name, table |-> table, status |-> status, sent |-> sent]

\* A handler that runs on the event loop starts when no other one is suspended.
EventLoopFree == \A q \in reqs : q.op # "get_cached_schema"

\* POST /api/tables/create; the route declares no get_current_user_id dependency.
create_new_table(name) ==
    /\ EventLoopFree
    /\ UNCHANGED <<workspaces, members, invitations, now, rows, reqs>>
    /\ LET result == create_table(name) IN
          /\ tables' = result.tables
          /\ metadata' = result.metadata
          /\ IF result.success
             THEN /\ cache' = NoSchemas
                  /\ last' = BuilderCall("create_new_table", name, Text(name), 200, result.sent)
             ELSE /\ UNCHANGED cache
                  /\ last' = BuilderCall("create_new_table", name, Text(name), 400, result.sent)

\* rename_table: whether it succeeded, and the tables and the _table_metadata rows
\* afterwards.  ALTER TABLE is committed before rename_table_metadata runs, whose
\* UPDATE fails on the UNIQUE table_name when a row of the new name is left.
rename_table(old_name, name) ==
    LET new_name == Text(name) IN
    IF old_name \in RESERVED_TABLES \/ validate_name(name, "table") # ""
    THEN [success |-> FALSE, tables |-> tables, metadata |-> metadata]
    ELSE IF old_name \notin tables \/ new_name \in tables \/ new_name \in ReservedWords
    THEN [success |-> FALSE, tables |-> tables, metadata |-> metadata]
    ELSE IF old_name \in metadata /\ new_name \in metadata
    THEN [success |-> FALSE, tables |-> (tables \ {old_name}) \cup {new_name}, metadata |-> metadata]
    ELSE [success |-> TRUE, tables |-> (tables \ {old_name}) \cup {new_name},
          metadata |-> IF old_name \in metadata
                       THEN (metadata \ {old_name}) \cup {new_name}
                       ELSE metadata]

\* PUT /api/tables/{table_name}
update_table_name(table_name, new_name) ==
    /\ EventLoopFree
    /\ UNCHANGED <<workspaces, members, invitations, now, rows, reqs>>
    /\ LET result == rename_table(table_name, new_name) IN
          /\ tables' = result.tables
          /\ metadata' = result.metadata
          /\ IF result.success
             THEN /\ cache' = NoSchemas
                  /\ last' = BuilderCall("update_table_name", new_name, table_name, 200, <<>>)
             ELSE /\ UNCHANGED cache
                  /\ last' = BuilderCall("update_table_name", new_name, table_name, 400, <<>>)

\* get_dynamic_schema: the tables the schema text describes.
get_dynamic_schema(table_name) == IF table_name \in tables THEN {table_name} ELSE tables

\* The arguments of get_cached_schema: table_name or "__all__".
SchemaKeys == {"__all__", "sales"}

\* The tables a client asks to drop.
DropNames == {"sales", "truncate", "missing"}

\* DELETE /api/tables/{table_name}, a def route, which runs in the thread pool:
\* delete_table.  The rows of _table_metadata stay.
remove_table(id, table_name) ==
    /\ \A q \in reqs : q.id # id
    /\ UNCHANGED <<workspaces, members, invitations, now, rows, metadata, cache>>
    /\ IF table_name = "sales" \/ table_name \notin tables
       THEN /\ last' = BuilderCall("remove_table", <<>>, table_name, 400, <<>>)
            /\ UNCHANGED <<reqs, tables>>
       ELSE /\ tables' = tables \ {table_name}
            /\ reqs' = reqs \cup {Request(id, "remove_table", "clear", Anonymous, 0, 0, table_name, {})}
            /\ UNCHANGED last

\* remove_table after delete_table: clear_schema_cache() and the response.
remove_table_clear(q) ==
    /\ q.op = "remove_table" /\ q.pc = "clear"
    /\ cache' = NoSchemas
    /\ reqs' = reqs \ {q}
    /\ last' = BuilderCall("remove_table", <<>>, q.arg, 200, <<>>)
    /\ UNCHANGED <<workspaces, members, invitations, now, rows, tables, metadata>>

\* What get_cached_schema returned for the key.
SchemaCall(key, schema) == [op |-> "get_cached_schema", key |-> key, schema |-> schema]

\* get_cached_schema(table_name), called by AIEngine.__init__ on the event loop:
\* the lru_cache wrapper returns a stored result, or calls get_dynamic_schema.
get_cached_schema(id, table_name) ==
    /\ EventLoopFree
    /\ \A q \in reqs : q.id # id
    /\ UNCHANGED <<workspaces, members, invitations, now, rows, catalog>>
    /\ IF table_name \in DOMAIN cache
       THEN /\ last' = SchemaCall(table_name, cache[table_name])
            /\ UNCHANGED reqs
       ELSE /\ reqs' = reqs \cup {Request(id, "get_cached_schema", "store", Anonymous, 0, 0, table_name, get_dynamic_schema(table_name))}
            /\ UNCHANGED last

\* The lru_cache wrapper after the call: it stores the result and returns it.
get_cached_schema_store(q) ==
    /\ q.op = "get_cached_schema" /\ q.pc = "store"
    /\ cache' = (q.arg :> q.seen) @@ cache
    /\ reqs' = reqs \ {q}
    /\ last' = SchemaCall(q.arg, q.seen)
    /\ UNCHANGED <<workspaces, members, invitations, now, rows, tables, metadata>>

\* The database before any table is made, without the data table.
InitBuilder ==
    /\ workspaces = {Workspace(1, 1, "team")}
    /\ members = {[workspace_id |-> 1, user_id |-> 1, role |-> "owner"]}
    /\ invitations = {}
    /\ now = 0
    /\ reqs = NoRequests
    /\ rows = {}
    /\ tables = ExistingTables \ {"sales"}
    /\ metadata = {}
    /\ cache = NoSchemas
    /\ last = BuilderCall("init", <<>>, NoTable, 0, <<>>)

\* The tables the row requests name: the two a table builder request can make.
BuilderTables == {"sales", "truncate"}

NextBuilder ==
    \/ \E name \in RequestNames : create_new_table(name)
    \/ \E t \in BuilderTables, name \in RequestNames : update_table_name(t, name)
    \/ \E id \in ReqIds, t \in DropNames : remove_table(id, t)
    \/ \E q \in reqs : remove_table_clear(q)
    \/ \E id \in ReqIds, k \in SchemaKeys : get_cached_schema(id, k)
    \/ \E q \in reqs : get_cached_schema_store(q)
    \/ \E t \in BuilderTables, d \in RowDatas, u \in Callers : insert_row(t, d, u)

SpecBuilder == InitBuilder /\ [][NextBuilder]_vars

(***************************************************************************)
(* Properties.                                                             *)
(***************************************************************************)


\* C1: in every reachable state every workspace has at least one membership with
\* role owner.
C1_OwnerAlways == \A w \in workspaces : Owners(w.id) # {}

\* C11: update_member_role and remove_member called by a user who holds no owner
\* membership in the workspace (editor, viewer or non-member) are denied and leave
\* the memberships as they were.
C11_NonOwnerDenied ==
    [][(/\ last'.op \in {"update_member_role", "remove_member"}
        /\ Owners(last'.ws) \cap MemberRows(last'.ws, last'.user) = {})
       => /\ last'.status = 403
          /\ UNCHANGED members]_vars

\* owner = 3 > editor = 2 > viewer = 1
C2_Rank(role) == CASE role = "owner" -> 3 [] role = "editor" -> 2 [] role = "viewer" -> 1

\* C2: verify_workspace_access denies (403) a user without a membership in the
\* workspace; for a member it grants exactly when no role is required or the member's
\* rank is at least the required role's rank.
C2_AccessByRank ==
    last.op = "verify_workspace_access" =>
        /\ (MemberRows(last.ws, last.user) = {} => last.status = 403)
        /\ \A m \in MemberRows(last.ws, last.user) :
              (last.status = 200) <=>
                  (last.arg = NoRole \/ C2_Rank(m.role) >= C2_Rank(last.arg))
        /\ last.status \in {200, 403}

\* C2 witness: a member was denied because the required role outranks the member's.
C2_Witness ==
    /\ last.op = "verify_workspace_access"
    /\ last.status = 403
    /\ MemberRows(last.ws, last.user) # {}

\* C3: on the data table, get_table_rows by a user who owns no row is refused with
\* access denied (403), never answered with an empty success; otherwise every
\* returned row is the caller's and each of the caller's rows that matches the search
\* is returned on some page.
C3_OwnRowsPaged ==
    (last.op = "get_table_rows" /\ last.table = "sales" /\ last.auth) =>
        LET own == {r \in rows : r.user_id = last.user}
            hits == {r \in own : last.search = NoSearch \/ r.name = last.search}
        IN  /\ (own = {} => last.status = 403 /\ last.data = {})
            /\ (own # {} =>
                  /\ last.status \in {200, 500}
                  /\ \A d \in last.data : \E r \in own : d = <<"sales", r.rowid>>
                  /\ (last.status = 200 =>
                        \A r \in hits : \E p \in Pages :
                           r.rowid \in PageRows("sales", last.user, p, last.page_size,
                                                last.search)))

\* C3 witness: a page of a table that also holds another user's rows was returned.
C3_Witness ==
    /\ last.op = "get_table_rows"
    /\ last.table = "sales"
    /\ last.status = 200
    /\ last.data # {}
    /\ \E r \in rows : r.user_id # last.user

C4_SystemTables ==
    {"users", "workspaces", "workspace_members", "workspace_invitations", "audit_logs"}

\* C4: no row endpoint call by an authenticated user reads, creates, changes or
\* deletes a row of a system table.
C4_SystemTablesClosed ==
    (/\ last.op \in {"get_table_rows", "insert_row", "update_row", "delete_row"}
     /\ last.auth
     /\ last.table \in C4_SystemTables)
    => last.stmt = {} /\ last.data = {} /\ last.status = 403

\* C5: an endpoint runs a statement on the user data table only for an authenticated
\* caller for whom validate_table_access passed on that table.
C5_ValidatedBeforeStatement ==
    "sales" \in last.stmt => last.auth /\ last.validated

\* C6: insert_row stores the caller as user_id; update_row and delete_row leave the
\* rows of other users as they are and change no row's user_id.
C6_OwnershipKept ==
    [][/\ (last'.op = "insert_row" => \A r \in rows' \ rows : r.user_id = last'.user)
       /\ (last'.op \in {"update_row", "delete_row"} =>
             \A r \in rows :
                /\ (r.user_id # last'.user => r \in rows')
                /\ \A q \in rows' : q.rowid = r.rowid => q.user_id = r.user_id)]_vars

\* C7: a delete_workspace call on a personal workspace is denied for every caller and
\* leaves the workspace and the memberships as they were.
C7_PersonalNotDeleted ==
    [][(/\ last'.op \in {"svc_delete_workspace", "api_delete_workspace"}
        /\ \E w \in workspaces : w.id = last'.ws /\ w.type = "personal")
       => /\ last'.status \in {400, 403}
          /\ UNCHANGED <<workspaces, members>>]_vars

\* C7 witness: the owner of a personal workspace asked to delete it and was refused.
C7_Witness ==
    /\ last.op \in {"svc_delete_workspace", "api_delete_workspace"}
    /\ last.status \in {400, 403}
    /\ \E w \in workspaces : w.id = last.ws /\ w.type = "personal"
    /\ \E m \in MemberRows(last.ws, last.user) : m.role = "owner"

\* C8: once accept_invitation(token, u) has succeeded, a further call with the same
\* token, by any user, returns None (HTTP 400), and u holds exactly one membership in
\* the invitation's workspace.
C8_SingleUse ==
    (last.op = "accept_invitation" /\ last.status = 200) =>
        /\ \A u \in Users :
              \A i \in AcceptableInvitations(last.target) : i.email # EmailOf[u]
        /\ Cardinality(MemberRows(last.ws, last.user)) = 1

\* The invitation a call accept_invitation(token, user) may redeem: active, not yet
\* accepted, not expired, and addressed to the user's email.
Redeemable(token, user) ==
    \E i \in invitations : /\ i.token = token
                           /\ i.is_active
                           /\ i.accepted_at = NULL
                           /\ now < i.expires_at
                           /\ i.email = EmailOf[user]

\* C9: accept_invitation creates a membership only for a redeemable invitation; for
\* any other call it returns None (HTTP 400) and changes no membership and no
\* invitation.
C9_AcceptOnlyRedeemable ==
    [][last'.op = "accept_invitation" =>
         /\ (members' # members => Redeemable(last'.target, last'.user))
         /\ (~Redeemable(last'.target, last'.user) =>
                /\ last'.ret = "None"
                /\ last'.status = 400
                /\ UNCHANGED <<members, invitations>>)]_vars

\* C9 witness: a call with the token of an expired, still pending invitation addressed
\* to the caller has been refused.
C9_Witness ==
    /\ last.op = "accept_invitation"
    /\ last.ret = "None"
    /\ \E i \in invitations : /\ i.token = last.target
                              /\ i.email = EmailOf[last.user]
                              /\ i.is_active
                              /\ i.accepted_at = NULL
                              /\ i.expires_at <= now

\* The scenario of C10 has happened for user b in workspace w: an invitation of b's
\* email as editor, issued by w's owner a, is accepted and inactive, and b's only
\* membership in w is the editor one.
InvitedEditor(w, b) ==
    /\ \E i \in invitations : /\ i.workspace_id = w
                              /\ i.email = EmailOf[b]
                              /\ i.role = "editor"
                              /\ i.accepted_at # NULL
                              /\ ~i.is_active
    /\ MemberRows(w, b) = {[workspace_id |-> w, user_id |-> b, role |-> "editor"]}
    /\ \E x \in workspaces : x.id = w /\ x.owner_id # b

\* C10: after the scenario, every create_invitation, add_member and remove_member call
\* of b on w is denied.
C10_EditorCannotManage ==
    [][(/\ last'.op \in {"create_invitation", "add_member", "remove_member"}
        /\ InvitedEditor(last'.ws, last'.user))
       => last'.ret \in {"None", "False"}]_vars

\* C12: a role change never adds an owner membership: whenever a request of the
\* update_member_role route leaves, the workspace's owner memberships afterwards
\* are among those it had before, whoever the caller is.
C12_NoOwnerByRoleChange ==
    [][\A q \in reqs \ reqs' :
          q.op = "api_update_member_role" => Owners(q.ws)' \subseteq Owners(q.ws)]_vars

\* C13: after the answer to a role change or a removal, whatever other request
\* ran at the same time, every workspace still has an owner membership.
C13_OwnerRemains ==
    last.op \in {"api_update_member_role", "api_remove_workspace_member"}
       => \A w \in workspaces : Owners(w.id) # {}

\* C14: whatever the interleaving of add_member and accept_invitation calls, no two
\* membership rows are for the same workspace and user.
C14_OneMembership ==
    \A m1 \in members, m2 \in members :
       (m1.workspace_id = m2.workspace_id /\ m1.user_id = m2.user_id) => m1 = m2

\* C18: when a create_workspace call ends, by returning or by raising, the store
\* holds the workspace together with its creator's owner membership, or neither.
C18_WorkspaceWithOwner ==
    [][\A q \in reqs \ reqs' :
          q.op = "create_workspace"
             => ((\E w \in workspaces' : w.id = q.ws)
                   <=> (\E m \in members' : /\ m.workspace_id = q.ws
                                             /\ m.user_id = q.user
                                             /\ m.role = "owner"))]_vars

\* An invitation that is active, not accepted and not expired.
Outstanding(i) == i.is_active /\ i.accepted_at = NULL /\ i.expires_at > now

\* C15: a workspace never holds two outstanding invitations for the same email.
C15_OneOutstanding ==
    \A i1 \in invitations, i2 \in invitations :
       (/\ Outstanding(i1)
        /\ Outstanding(i2)
        /\ i1.workspace_id = i2.workspace_id
        /\ i1.email = i2.email) => i1 = i2

\* C16: create_invitation stores no invitation for the email of a user who is
\* already a member of the workspace.
C16_NoInviteForMember ==
    [][last'.op = "create_invitation"
          => \A i \in invitations' \ invitations :
                \A u \in UsersByEmail(i.email) : MemberRows(i.workspace_id, u) = {}]_vars

\* C17: every create_workspace request is answered 200, and no two workspaces
\* have the same slug, however the requests interleave.
C17_DistinctSlugs ==
    /\ last.op = "api_create_workspace" => last.status = 200
    /\ \A w1 \in workspaces, w2 \in workspaces : w1.slug = w2.slug => w1 = w2

\* The request q is answered in this step.
Answered(q) == \A p \in reqs' : p.id # q.id

\* C19: a get_current_user_id request with an unexpired token for an identity that
\* is new to the application (a sub, and an email no User has yet) is answered
\* with a user id, whatever other request runs beside it, and one User row has
\* the email afterwards.
C19_NewIdentityResolved ==
    [][\A q \in reqs :
          (/\ q.op = "get_current_user_id"
           /\ Answered(q)
           /\ q.seen.readable
           /\ q.seen.sub # NoClaim
           /\ q.seen.email = "nobody@x.com"
           /\ q.seen.exp > now)
             => /\ last'.status = 200
                /\ Cardinality(UsersByEmail(q.seen.email)) = 1]_vars

\* C20: a get_current_user_id request whose token has no exp claim in the future,
\* or is not confirmed by the Supabase user endpoint, is answered 401.
C20_UnverifiedRefused ==
    [][\A q \in reqs :
          (/\ q.op = "get_current_user_id"
           /\ Answered(q)
           /\ ~(q.seen.exp # NULL /\ q.seen.exp > now /\ q.seen.verified))
             => last'.status = 401]_vars

\* C23: when delete_workspace has returned True for a workspace, no membership of
\* the workspace is left and none of its invitations can still be accepted.
C23_DeletedWorkspaceEmpty ==
    [][(last'.op = "delete_workspace" /\ last'.status = 200)
          => /\ \A m \in members' : m.workspace_id # last'.ws
             /\ \A i \in invitations' :
                   i.workspace_id = last'.ws
                      => ~(i.is_active /\ i.accepted_at = NULL /\ i.expires_at > now')]_vars

\* C24: update_workspace on an existing workspace succeeds when the caller's
\* membership role is owner or editor, and is denied, leaving the workspaces as
\* they were, when the caller is a viewer or no member.
C24_EditorsUpdate ==
    [][(/\ last'.op \in {"update_workspace", "svc_update_workspace"}
        /\ \E w \in workspaces : w.id = last'.ws)
          => IF \E m \in MemberRows(last'.ws, last'.user) : m.role \in {"owner", "editor"}
             THEN last'.status = 200
             ELSE last'.status = 403 /\ UNCHANGED workspaces]_vars

\* C28: an add_member call by a user who is not an owner of the workspace adds no
\* owner membership to it.
C28_NoOwnerFromBelow ==
    [][(/\ last'.op = "add_member"
        /\ Owners(last'.ws) \cap MemberRows(last'.ws, last'.user) = {})
          => \A m \in members' :
                (m.workspace_id = last'.ws /\ m.role = "owner") => m \in members]_vars

\* The query with the parts at positions i and i + 1 taken out.
WithoutTwo(query, i) == SubSeq(query, 1, i - 1) \o SubSeq(query, i + 2, Len(query))

\* C27: for a base query over a table with a user_id column, the filtered query
\* has the caller's user_id condition in a WHERE clause, in front of every GROUP
\* BY, ORDER BY, LIMIT and OFFSET, and is otherwise the base query.
C27_FilterInWhere ==
    (/\ last.op = "get_user_filtered_query"
     /\ "user_id" \in ColumnNames(last.table)
     /\ last.base_query # <<>>)
       => \E i \in 1 .. Len(last.query) - 1 :
             /\ \/ /\ UpperPart(last.query[i]) = "WHERE"
                   /\ last.query[i + 1] = UserCondition(last.user)
                   /\ \/ WithoutTwo(last.query, i) = last.base_query
                      \/ /\ i + 2 <= Len(last.query)
                         /\ last.query[i + 2] = "AND"
                         /\ WithoutTwo(last.query, i + 1) = last.base_query
             /\ \A j \in 1 .. Len(last.query) :
                   last.query[j] \in {ClauseOrder[k] : k \in 1 .. Len(ClauseOrder)} => i < j

\* C26: for a caller who owns no rows, validate_table_access has the same outcome
\* for the data table, which exists, as for a table that does not exist.
C26_ExistenceHidden ==
    \A u \in RowCallers :
       {r \in rows : r.user_id = u} = {}
          => validate_table_access("sales", u) = validate_table_access("missing", u)

\* The verbs of the claim that a statement contains, in any letter case.
MutationVerbs(statement) == KeywordsIn(statement) \ {"CREATE"}

\* C22: a widget sql with a statement that contains a mutation verb is not
\* executed, no part of it, and the response reports an error.
C22_MutationRejected ==
    (/\ last.op = "execute_widget_sql"
     /\ \E i \in 1 .. Len(last.sql) : MutationVerbs(last.sql[i]) # {})
       => /\ last.executed = {}
          /\ ~last.success

\* The names of the claim: one with a statement separator, a quote, a space or a
\* path character, or one that is a mutation keyword.
Crafted(name) ==
    \/ \E i \in 1 .. Len(name) : name[i] \in {";", "'", " ", "/", "."}
    \/ Text(name) \in {"drop", "truncate"}

\* C21: a table-creation request with a crafted name is answered with an input
\* error before any statement is sent to the database, and there is no table and
\* no metadata row of that name.
C21_CraftedNameRejected ==
    (last.op = "create_new_table" /\ Crafted(last.name))
       => /\ last.status = 400
          /\ last.sent = <<>>
          /\ last.table \notin tables \cup metadata

\* C25: when no schema-mutating operation is in flight, every result stored for
\* get_cached_schema is the schema of the database as it is, so a call that
\* begins after the operation has returned gets a schema computed after it.
C25_CachedSchemaFresh ==
    (\A q \in reqs : q.op # "remove_table")
       => \A k \in DOMAIN cache : cache[k] = get_dynamic_schema(k)

\* C29: an insert_row call by an authenticated user on a table that create_table
\* made, which holds no rows, is not refused for lack of access.
C29_CreatorInserts ==
    (last.op = "insert_row" /\ last.auth /\ last.table \in tables \cap metadata)
       => last.status # 403

====
